---- MODULE Spec2Model ----
(***************************************************************************)
(* Model of app.py, the Streamlit water-quality dashboard.                 *)
(*                                                                         *)
(* Streamlit executes the script top to bottom once per request (a rerun). *)
(* One request is modelled as the sequence of the script's blocks:         *)
(*   Upload mode : SplitEC -> Merge -> WHOChecks -> Predict -> Report      *)
(*   Manual mode : ManualEntry     -> WHOChecks -> Predict -> Report       *)
(* The cached model and scaler (st.cache_resource) are the only state      *)
(* that survives from one request to the next.                             *)
(*                                                                         *)
(* Numbers are integers.  pH is held in tenths (6.5 is 65); every other    *)
(* measurement is held in its own unit.  A missing measurement (an empty   *)
(* CSV cell, NaN in pandas) is the value NaN, for which every comparison   *)
(* is false, as in IEEE arithmetic.                                        *)
(***************************************************************************)
EXTENDS Integers, Sequences, FiniteSets, TLC

VARIABLES
    mode,           \* st.radio: "Upload CSV Files" or "Manual Input"
    phys_file,      \* st.file_uploader: the physical CSV (or none)
    bact_file,      \* st.file_uploader: the bacterial CSV (or none)
    manual,         \* the values of the manual-input widgets
    pc,             \* the position of the running script
    phys_df,        \* the physical frame of this request
    split_error,    \* st.error of line 53 was shown in this request
    df,             \* the merged / manual frame of this request
    predictor,      \* "pending", "ok" or "raised": outcome of the try block
    advisory,       \* the boil-water advisory was emitted in this request
    summary,        \* the text summary: column -> [safe, total, percent10]
    model_cache,    \* st.cache_resource entry of load_model_cached
    scaler_cache,   \* st.cache_resource entry of load_scaler_cached
    model_loads,    \* times load_model("water_quality_ann.h5") returned
    scaler_loads    \* times joblib.load("scaler.pkl") returned

vars == <<mode, phys_file, bact_file, manual, pc, phys_df, split_error, df,
          predictor, advisory, summary, model_cache, scaler_cache,
          model_loads, scaler_loads>>

-----------------------------------------------------------------------------
(* Bounds of the model *)

\* number of distinct sample identifiers the uploaded files draw from
MaxIds == 2

\* the load counters saturate here (the cached loaders never reach it)
MaxLoads == 2

-----------------------------------------------------------------------------
(* Numbers, NaN and comparisons *)

NaN == -1

LE(a, b) == a # NaN /\ b # NaN /\ a <= b
GE(a, b) == a # NaN /\ b # NaN /\ a >= b
EQ(a, b) == a # NaN /\ b # NaN /\ a = b

Min(S) == CHOOSE x \in S : \A y \in S : x <= y
Max(S) == CHOOSE x \in S : \A y \in S : x >= y

-----------------------------------------------------------------------------
(* Thresholds *)

\* the guideline text the app displays (expander, lines 16-19)
WHO_PH_MIN == 65
WHO_PH_MAX == 85
WHO_TDS_MAX == 1000
WHO_EC_MAX == 1400

\* the thresholds the checks apply (lines 87-102)
PH_LOW == 65
PH_HIGH == 75
TDS_HIGH == 300
EC_HIGH == 400
HARD_SOFT == 60
HARD_MODERATE == 120
HARD_HARD == 180
DO_GOOD == 6

-----------------------------------------------------------------------------
(* Status labels.  Each label of the source starts with an emoji; the      *)
(* emoji is written here as an ASCII tag in brackets.                      *)

PH_OK == "[check] OK"
PH_OUT == "[warn] Out of Range"
TDS_OK == "[check] OK"
TDS_HIGH_LABEL == "[warn] High"
COLI_SAFE == "[check] Safe"
COLI_UNSAFE == "[alarm] Unsafe"
SOFT == "[drop] Soft"
MODERATE == "[salt] Moderate"
HARD == "[rock] Hard"
VERY_HARD == "[warn] Very Hard"
DO_OK == "[check] Good"
DO_LOW == "[warn] Low"

\* the emoji a label starts with
EmojiOf(label) ==
    CASE label \in {PH_OK, COLI_SAFE, DO_OK} -> "check"
      [] label \in {PH_OUT, TDS_HIGH_LABEL, VERY_HARD, DO_LOW} -> "warn"
      [] label = COLI_UNSAFE -> "alarm"
      [] label = SOFT -> "drop"
      [] label = MODERATE -> "salt"
      [] label = HARD -> "rock"

ph_status(x) == IF LE(PH_LOW, x) /\ LE(x, PH_HIGH) THEN PH_OK ELSE PH_OUT

tds_status(x) == IF LE(x, TDS_HIGH) THEN TDS_OK ELSE TDS_HIGH_LABEL

ec_status(x) == IF LE(x, EC_HIGH) THEN TDS_OK ELSE TDS_HIGH_LABEL

coliform_status(x) == IF EQ(x, 0) THEN COLI_SAFE ELSE COLI_UNSAFE

\* the tiers with each bound left out of its tier
hardness_status_exclusive(x) ==
    IF LE(x, HARD_SOFT - 1) THEN SOFT
    ELSE IF LE(x, HARD_MODERATE - 1) THEN MODERATE
    ELSE IF LE(x, HARD_HARD - 1) THEN HARD
    ELSE VERY_HARD

hardness_status(x) ==
    IF LE(x, HARD_SOFT) THEN SOFT
    ELSE IF LE(x, HARD_MODERATE) THEN MODERATE
    ELSE IF LE(x, HARD_HARD) THEN HARD
    ELSE VERY_HARD

do_status(x) == IF GE(x, DO_GOOD) THEN DO_OK ELSE DO_LOW

-----------------------------------------------------------------------------
(* Column names.  str.strip() and str.lower() are given on the names the   *)
(* frames of the model can hold.                                           *)

StrStrip(s) ==
    CASE s = " Sample " -> "Sample"
      [] s = " pH " -> "pH"
      [] s = " TDS " -> "TDS"
      [] s = " EC " -> "EC"
      [] s = " Hardness " -> "Hardness"
      [] s = " DO " -> "DO"
      [] s = " Coliform " -> "Coliform"
      [] OTHER -> s

StrLower(s) ==
    CASE s = "Sample" -> "sample"
      [] s = "pH" -> "ph"
      [] s = "TDS" -> "tds"
      [] s = "EC" -> "ec"
      [] s = "Hardness" -> "hardness"
      [] s = "DO" -> "do"
      [] s = "Coliform" -> "coliform"
      [] s = " Sample " -> " sample "
      [] s = " pH " -> " ph "
      [] s = " TDS " -> " tds "
      [] s = " EC " -> " ec "
      [] s = " Hardness " -> " hardness "
      [] s = " DO " -> " do "
      [] s = " Coliform " -> " coliform "
      [] OTHER -> s

\* df.columns.str.strip().str.lower()
NormalizeName(s) == StrLower(StrStrip(s))

\* a header as a CSV file may spell it
HeaderStyles == {"canonical", "lower", "padded"}

Header(name, style) ==
    CASE style = "canonical" -> name
      [] style = "lower" -> StrLower(name)
      [] style = "padded" -> " " \o name \o " "

-----------------------------------------------------------------------------
(* Frames: [none, columns, rows]; a row is a function columns -> value.    *)

NoFrame == [none |-> TRUE, columns |-> {}, rows |-> <<>>]

Frame(cols, rows) == [none |-> FALSE, columns |-> cols, rows |-> rows]

IsEmpty(f) == Len(f.rows) = 0

\* df[name] = values (a new column, or an existing one overwritten)
SetColumn(f, name, values) ==
    Frame(f.columns \cup {name},
          [i \in 1..Len(f.rows) |->
              [c \in f.columns \cup {name} |->
                  IF c = name THEN values[i] ELSE f.rows[i][c]]])

\* df.columns = df.columns.str.strip().str.lower()
NormalizeColumns(f) ==
    LET cols == {NormalizeName(c) : c \in f.columns}
        old(c2) == CHOOSE c \in f.columns : NormalizeName(c) = c2
    IN  Frame(cols, [i \in 1..Len(f.rows) |-> [c2 \in cols |-> f.rows[i][old(c2)]]])

-----------------------------------------------------------------------------
(* The conductivity/temperature cell.  A cell is the text of the CSV cell, *)
(* a sequence of characters; the empty cell is read by pandas as NaN.      *)

Digit == <<"0", "1", "2", "3", "4", "5", "6", "7", "8", "9">>

IsDigit(c) == \E d \in 1..10 : Digit[d] = c

DigitValue(c) == (CHOOSE d \in 1..10 : Digit[d] = c) - 1

RECURSIVE Digits(_)
Digits(n) == IF n < 10 THEN <<Digit[n + 1]>>
             ELSE Digits(n \div 10) \o <<Digit[(n % 10) + 1]>>

\* the text "<ec>/<temp>"
Cell(ec, temp) == Digits(ec) \o <<"/">> \o Digits(temp)

\* str.split(sep)
RECURSIVE StrSplit(_, _)
StrSplit(s, sep) ==
    LET hits == {i \in 1..Len(s) : s[i] = sep}
    IN  IF hits = {} THEN <<s>>
        ELSE <<SubSeq(s, 1, Min(hits) - 1)>>
             \o StrSplit(SubSeq(s, Min(hits) + 1, Len(s)), sep)

\* float(token) on the tokens of the model: digits only, at least one
IsFloat(tok) == Len(tok) > 0 /\ \A i \in 1..Len(tok) : IsDigit(tok[i])

RECURSIVE ToFloat(_)
ToFloat(tok) ==
    IF Len(tok) = 1 THEN DigitValue(tok[1])
    ELSE 10 * ToFloat(SubSeq(tok, 1, Len(tok) - 1)) + DigitValue(tok[Len(tok)])

\* phys_df['EC'].str.split('/', expand=True).astype(float), assigned to the
\* two columns ec_val and temp: [raised, frame]
SplitECColumn(f) ==
    LET n == Len(f.rows)
        cells == [i \in 1..n |-> f.rows[i]["EC"]]
        present == {i \in 1..n : cells[i] # <<>>}
        toks == [i \in 1..n |-> IF i \in present THEN StrSplit(cells[i], "/") ELSE <<>>]
        width == Max({Len(toks[i]) : i \in present})
        parses == \A i \in present : \A k \in 1..Len(toks[i]) : IsFloat(toks[i][k])
        val(i, k) == IF k <= Len(toks[i]) THEN ToFloat(toks[i][k]) ELSE NaN
    IN  IF "EC" \notin f.columns
        THEN [raised |-> TRUE, frame |-> f]           \* KeyError
        ELSE IF present = {}
        THEN [raised |-> TRUE, frame |-> f]           \* no string column / no token
        ELSE IF ~parses
        THEN [raised |-> TRUE, frame |-> f]           \* astype(float): ValueError
        ELSE IF width # 2
        THEN [raised |-> TRUE, frame |-> f]           \* columns must match the key
        ELSE [raised |-> FALSE,
              frame |-> SetColumn(SetColumn(f, "ec_val", [i \in 1..n |-> val(i, 1)]),
                                  "temp", [i \in 1..n |-> val(i, 2)])]

-----------------------------------------------------------------------------
(* pd.merge(left, right, on=key, how="inner")                              *)

MergeRaises(left, right, key) == key \notin left.columns \/ key \notin right.columns

JoinRow(l, r, lcols, rcols) ==
    [c \in lcols \cup rcols |-> IF c \in lcols THEN l[c] ELSE r[c]]

RECURSIVE JoinFrom(_, _, _, _)
JoinFrom(left, right, key, k) ==
    IF k > Len(left.rows) THEN <<>>
    ELSE LET l == left.rows[k]
             hits == SelectSeq(right.rows, LAMBDA r : r[key] = l[key])
         IN  [j \in 1..Len(hits) |-> JoinRow(l, hits[j], left.columns, right.columns)]
             \o JoinFrom(left, right, key, k + 1)

InnerMerge(left, right, key) ==
    Frame(left.columns \cup right.columns, JoinFrom(left, right, key, 1))

-----------------------------------------------------------------------------
(* The WHO checks (lines 82-102)                                           *)

StatusOf(src, x) ==
    CASE src = "ph" -> ph_status(x)
      [] src = "tds" -> tds_status(x)
      [] src = "ec_val" -> ec_status(x)
      [] src = "coliform" -> coliform_status(x)
      [] src = "hardness" -> hardness_status(x)
      [] src = "do" -> do_status(x)

StatusColumn(src) ==
    CASE src = "ph" -> "ph_status"
      [] src = "tds" -> "tds_status"
      [] src = "ec_val" -> "ec_status"
      [] src = "coliform" -> "coliform_status"
      [] src = "hardness" -> "hardness_status"
      [] src = "do" -> "do_status"

\* the checked columns, in the order of the script
CheckedColumns == <<"ph", "tds", "ec_val", "coliform", "hardness", "do">>

\* if src in df.columns: df[src_status] = df[src].apply(...)
RECURSIVE ApplyChecks(_, _)
ApplyChecks(f, k) ==
    IF k > Len(CheckedColumns) THEN f
    ELSE LET src == CheckedColumns[k]
             g == IF src \in f.columns
                  THEN SetColumn(f, StatusColumn(src),
                           [i \in 1..Len(f.rows) |-> StatusOf(src, f.rows[i][src])])
                  ELSE f
         IN  ApplyChecks(g, k + 1)

WHOChecksFrame(f) == ApplyChecks(NormalizeColumns(f), 1)

-----------------------------------------------------------------------------
(* The AI prediction (lines 24-31, 104-118)                                *)

NotLoaded == "not loaded"
ModelHandle == "water_quality_ann.h5"
ScalerHandle == "scaler.pkl"

Bump(n) == IF n < MaxLoads THEN n + 1 ELSE n

\* a function under @st.cache_resource: the body runs only when the cache
\* holds no entry; a body that raises leaves no entry.
\* ok: whether the body, if it runs, returns
CachedLoad(cache, loads, handle, ok) ==
    IF cache # NotLoaded
    THEN [raised |-> FALSE, cache |-> cache, loads |-> loads]
    ELSE IF ok
    THEN [raised |-> FALSE, cache |-> handle, loads |-> Bump(loads)]
    ELSE [raised |-> TRUE, cache |-> cache, loads |-> loads]

\* the loader without its @st.cache_resource decorator
load_model_uncached(cache, loads, ok) ==
    IF ok
    THEN [raised |-> FALSE, cache |-> ModelHandle, loads |-> Bump(loads)]
    ELSE [raised |-> TRUE, cache |-> cache, loads |-> loads]

load_model_cached(cache, loads, ok) == CachedLoad(cache, loads, ModelHandle, ok)

load_scaler_cached(cache, loads, ok) == CachedLoad(cache, loads, ScalerHandle, ok)

FeatureColumns == {"ec_val", "temp", "ph", "tds"}

\* np.argmax(prediction, axis=1) of a three-class model
Classes == 0..2

Interpretation(k) ==
    CASE k = 0 -> "Good"
      [] k = 1 -> "Moderate"
      [] k = 2 -> "Poor"

\* the end of the try block: the two columns the prediction adds
OnPredictorSuccess(f, labels) ==
    SetColumn(SetColumn(f, "prediction", labels), "interpretation",
              [i \in 1..Len(f.rows) |-> Interpretation(labels[i])])

\* an except block that only warns
OnPredictorErrorWarnOnly(f) == f

\* the except block
OnPredictorError(f) ==
    SetColumn(f, "interpretation", [i \in 1..Len(f.rows) |-> "Unavailable"])

-----------------------------------------------------------------------------
(* The advisory and the text summary (lines 142-162)                       *)

\* Python values as dictionary keys: an int never equals a str
PyInt(i) == "int:" \o ToString(i)
PyStr(s) == "str:" \o s

\* the index of a frame built by pd.merge or pd.DataFrame: RangeIndex(n)
IndexLabels(f) == {PyInt(i - 1) : i \in 1..Len(f.rows)}

\* key in df.get(col, []): membership in a Series tests its index labels,
\* membership in the empty list is false
InSeriesOrDefault(f, col, key) ==
    IF col \in f.columns THEN key \in IndexLabels(f) ELSE FALSE

AdvisoryEmitted(f) == InSeriesOrDefault(f, "coliform_status", PyStr(COLI_UNSAFE))

param_columns ==
    {"ph_status", "tds_status", "ec_status", "coliform_status",
     "hardness_status", "do_status"}

\* str.contains("check|drop|salt|rock")
AcceptableEmoji == {"check", "drop", "salt", "rock"}

\* round(safe / total * 100, 1), in tenths of a percent
Percent10(safe, total) == (safe * 2000 + total) \div (2 * total)

SummaryLine(f, col) ==
    LET total == Len(f.rows)
        safe == Cardinality({i \in 1..total : EmojiOf(f.rows[i][col]) \in AcceptableEmoji})
    IN  [safe |-> safe, total |-> total, percent10 |-> Percent10(safe, total)]

TextSummary(f) == [col \in param_columns \cap f.columns |-> SummaryLine(f, col)]

NoSummary == [col \in {} |-> 0]

-----------------------------------------------------------------------------
(* The inputs a user can give                                              *)

Upload == "Upload CSV Files"
Manual == "Manual Input"

SampleIds == <<"A1", "A2", "A3", "A4">>

IdSet == 1..MaxIds

\* the rows a physical CSV may hold for one sample: TDS present or empty,
\* the conductivity cell well formed, malformed or empty
PhysRowOpts ==
    [tds : {200, NaN}, ec : {Cell(300, 25), <<"a", "b", "c">>, <<>>}]

PhysRow(i, o) ==
    [Sample |-> SampleIds[i], pH |-> 70, TDS |-> o.tds, EC |-> o.ec,
     Hardness |-> 100, DO |-> 7]

BactRow(i, coliform) == [Sample |-> SampleIds[i], Coliform |-> coliform]

\* a row under the headers of a file
StyleRow(row, style) ==
    [c \in {Header(n, style) : n \in DOMAIN row} |->
        row[CHOOSE n \in DOMAIN row : Header(n, style) = c]]

\* the rows of the samples in P, in ascending order
RECURSIVE RowsOf(_, _, _)
RowsOf(P, row, style) ==
    IF P = {} THEN <<>>
    ELSE <<StyleRow(row[Min(P)], style)>> \o RowsOf(P \ {Min(P)}, row, style)

PhysFile(style, P, g) ==
    LET row == [i \in P |-> PhysRow(i, g[i])]
    IN  Frame({Header(n, style) : n \in {"Sample", "pH", "TDS", "EC", "Hardness", "DO"}},
              RowsOf(P, row, style))

BactFile(style, Q, h) ==
    LET row == [i \in Q |-> BactRow(i, h[i])]
    IN  Frame({Header(n, style) : n \in {"Sample", "Coliform"}}, RowsOf(Q, row, style))

PhysFiles ==
    UNION {{PhysFile(style, P, g) : g \in [P -> PhysRowOpts]} :
              style \in HeaderStyles, P \in SUBSET IdSet}

BactFiles ==
    UNION {{BactFile(style, Q, h) : h \in [Q -> {0, 1}]} :
              style \in {"canonical", "lower"}, Q \in SUBSET IdSet}

\* the values each manual widget can be set to; the first is its default
ManualDomain ==
    [ph |-> <<0, 70, 80>>, ec_val |-> <<0, 400, 401>>, temp |-> <<0, 25>>,
     tds |-> <<0, 300, 301>>, hardness |-> <<0, 60, 61, 120, 121, 180, 181>>,
     do |-> <<0, 6>>, coliform |-> <<0, 1>>]

ManualDefault == [w \in DOMAIN ManualDomain |-> ManualDomain[w][1]]

\* pd.DataFrame({...}) of the manual branch (lines 70-79)
ManualFrame(m) ==
    Frame({"sample", "ph", "ec_val", "temp", "tds", "hardness", "do", "coliform"},
          <<[sample |-> "ManualEntry1", ph |-> m.ph, ec_val |-> m.ec_val,
             temp |-> m.temp, tds |-> m.tds, hardness |-> m.hardness,
             do |-> m.do, coliform |-> m.coliform]>>)

-----------------------------------------------------------------------------
(* The state machine                                                       *)

Init ==
    /\ mode = Upload
    /\ phys_file = NoFrame
    /\ bact_file = NoFrame
    /\ manual = ManualDefault
    /\ pc = "start"
    /\ phys_df = NoFrame
    /\ split_error = FALSE
    /\ df = NoFrame
    /\ predictor = "pending"
    /\ advisory = FALSE
    /\ summary = NoSummary
    /\ model_cache = NotLoaded
    /\ scaler_cache = NotLoaded
    /\ model_loads = 0
    /\ scaler_loads = 0

caches == <<model_cache, scaler_cache, model_loads, scaler_loads>>
inputs == <<mode, phys_file, bact_file, manual>>
request == <<phys_df, split_error, df, predictor, advisory, summary>>

Idle == pc \in {"done", "crashed"}

\* every interaction reruns the script from its first line
NewRequest ==
    /\ pc' = "start"
    /\ phys_df' = NoFrame
    /\ split_error' = FALSE
    /\ df' = NoFrame
    /\ predictor' = "pending"
    /\ advisory' = FALSE
    /\ summary' = NoSummary
    /\ UNCHANGED caches

(* ---- the user ---- *)

UploadPhys ==
    /\ Idle /\ mode = Upload /\ phys_file.none
    /\ \E f \in PhysFiles : phys_file' = f
    /\ UNCHANGED <<mode, bact_file, manual>>
    /\ NewRequest

UploadBact ==
    /\ Idle /\ mode = Upload /\ bact_file.none
    /\ \E f \in BactFiles : bact_file' = f
    /\ UNCHANGED <<mode, phys_file, manual>>
    /\ NewRequest

RemoveFiles ==
    /\ Idle /\ mode = Upload /\ (~phys_file.none \/ ~bact_file.none)
    /\ phys_file' = NoFrame
    /\ bact_file' = NoFrame
    /\ UNCHANGED <<mode, manual>>
    /\ NewRequest

\* the radio: the widgets of the other mode are built anew
SelectMode ==
    /\ Idle
    /\ mode' = IF mode = Upload THEN Manual ELSE Upload
    /\ phys_file' = NoFrame
    /\ bact_file' = NoFrame
    /\ manual' = ManualDefault
    /\ NewRequest

\* one manual widget is set to another value
EditManual ==
    /\ Idle /\ mode = Manual
    /\ \E w \in DOMAIN ManualDomain : \E k \in 1..Len(ManualDomain[w]) :
          /\ ManualDomain[w][k] # manual[w]
          /\ manual' = [manual EXCEPT ![w] = ManualDomain[w][k]]
    /\ UNCHANGED <<mode, phys_file, bact_file>>
    /\ NewRequest

Rerun ==
    /\ Idle
    /\ UNCHANGED inputs
    /\ NewRequest

(* ---- the script ---- *)

\* lines 44-53: both files are there; read them, split the EC column
SplitEC ==
    /\ pc = "start" /\ mode = Upload
    /\ ~phys_file.none /\ ~bact_file.none
    /\ LET r == SplitECColumn(phys_file)
       IN  /\ phys_df' = r.frame
           /\ split_error' = r.raised
    /\ pc' = "merge"
    /\ UNCHANGED <<df, predictor, advisory, summary>>
    /\ UNCHANGED <<inputs, caches>>

\* lines 57-58: df = None
NoFiles ==
    /\ pc = "start" /\ mode = Upload
    /\ phys_file.none \/ bact_file.none
    /\ df' = NoFrame
    /\ pc' = "process"
    /\ UNCHANGED <<phys_df, split_error, predictor, advisory, summary>>
    /\ UNCHANGED <<inputs, caches>>

\* line 55
Merge ==
    /\ pc = "merge"
    /\ ~MergeRaises(phys_df, bact_file, "Sample")
    /\ df' = InnerMerge(phys_df, bact_file, "Sample")
    /\ pc' = "process"
    /\ UNCHANGED <<phys_df, split_error, predictor, advisory, summary>>
    /\ UNCHANGED <<inputs, caches>>

\* line 55 raises KeyError, which nothing catches: the script stops
MergeKeyError ==
    /\ pc = "merge"
    /\ MergeRaises(phys_df, bact_file, "Sample")
    /\ pc' = "crashed"
    /\ UNCHANGED request
    /\ UNCHANGED <<inputs, caches>>

\* lines 60-79
ManualEntry ==
    /\ pc = "start" /\ mode = Manual
    /\ df' = ManualFrame(manual)
    /\ pc' = "process"
    /\ UNCHANGED <<phys_df, split_error, predictor, advisory, summary>>
    /\ UNCHANGED <<inputs, caches>>

\* line 82 is false; lines 164-166
SkipProcessing ==
    /\ pc = "process"
    /\ df.none \/ IsEmpty(df)
    /\ pc' = "done"
    /\ UNCHANGED request
    /\ UNCHANGED <<inputs, caches>>

\* lines 82-102
WHOChecks ==
    /\ pc = "process"
    /\ ~df.none /\ ~IsEmpty(df)
    /\ df' = WHOChecksFrame(df)
    /\ pc' = "predict"
    /\ UNCHANGED <<phys_df, split_error, predictor, advisory, summary>>
    /\ UNCHANGED <<inputs, caches>>

\* what can go wrong in the try block: a loader that raises, or
\* scaler.transform / model.predict raising
Faults == {"none", "load_model", "load_scaler", "predict"}

\* lines 105-118.  fault: the call that raises if it is reached;
\* labels: the argmax of the prediction
Predict(fault, labels) ==
    LET m == load_model_cached(model_cache, model_loads, fault # "load_model")
        s == IF m.raised
             THEN [raised |-> TRUE, cache |-> scaler_cache, loads |-> scaler_loads]
             ELSE load_scaler_cached(scaler_cache, scaler_loads, fault # "load_scaler")
        raised == \/ s.raised
                  \/ ~(FeatureColumns \subseteq df.columns)      \* KeyError
                  \/ fault = "predict"
    IN  /\ pc = "predict"
        /\ model_cache' = m.cache
        /\ model_loads' = m.loads
        /\ scaler_cache' = s.cache
        /\ scaler_loads' = s.loads
        /\ predictor' = IF raised THEN "raised" ELSE "ok"
        /\ df' = IF raised THEN OnPredictorError(df) ELSE OnPredictorSuccess(df, labels)
        /\ pc' = "report"
        /\ UNCHANGED <<phys_df, split_error, advisory, summary>>
        /\ UNCHANGED inputs

PredictSucceeds ==
    \E labels \in [1..Len(df.rows) -> Classes] :
        /\ Predict("none", labels)
        /\ predictor' = "ok"

PredictRaises ==
    \E fault \in Faults :
        /\ Predict(fault, [i \in 1..Len(df.rows) |-> 0])
        /\ predictor' = "raised"

\* lines 120-162
Report ==
    /\ pc = "report"
    /\ advisory' = AdvisoryEmitted(df)
    /\ summary' = TextSummary(df)
    /\ pc' = "done"
    /\ UNCHANGED <<phys_df, split_error, df, predictor>>
    /\ UNCHANGED <<inputs, caches>>

Next ==
    \/ UploadPhys
    \/ UploadBact
    \/ RemoveFiles
    \/ SelectMode
    \/ EditManual
    \/ Rerun
    \/ SplitEC
    \/ NoFiles
    \/ Merge
    \/ MergeKeyError
    \/ ManualEntry
    \/ SkipProcessing
    \/ WHOChecks
    \/ PredictSucceeds
    \/ PredictRaises
    \/ Report

Spec == Init /\ [][Next]_vars

-----------------------------------------------------------------------------
(* Vocabulary of the properties                                            *)

Rows(f) == 1..Len(f.rows)

\* the frame holding only the columns in keep
Restrict(f, keep) ==
    Frame(f.columns \cap keep,
          [i \in 1..Len(f.rows) |-> [c \in f.columns \cap keep |-> f.rows[i][c]]])

Has(f, c) == ~f.none /\ c \in f.columns

\* the identifier column of a frame, however its header is spelled
IdColumn(f) == CHOOSE c \in f.columns : NormalizeName(c) = "sample"

Ids(f) == IF f.none THEN {} ELSE {f.rows[i][IdColumn(f)] : i \in Rows(f)}

BothUploaded == mode = Upload /\ ~phys_file.none /\ ~bact_file.none

CommonIds == Ids(phys_file) \cap Ids(bact_file)

\* the request went through the WHO checks
Checked == pc \in {"predict", "report", "done"} /\ ~df.none /\ ~IsEmpty(df)

Reported == pc = "done" /\ ~df.none /\ ~IsEmpty(df)

WellFormed(cell) ==
    LET t == StrSplit(cell, "/")
    IN  Len(t) = 2 /\ IsFloat(t[1]) /\ IsFloat(t[2])

Malformed(cell) == cell # <<>> /\ ~WellFormed(cell)

Acceptable(label) == label \in {PH_OK, COLI_SAFE, DO_OK, SOFT, MODERATE, HARD}

\* the measurement a status column is derived from
SourceOf(col) ==
    CASE col = "ph_status" -> "ph"
      [] col = "tds_status" -> "tds"
      [] col = "ec_status" -> "ec_val"
      [] col = "coliform_status" -> "coliform"
      [] col = "hardness_status" -> "hardness"
      [] col = "do_status" -> "do"

-----------------------------------------------------------------------------
ContaminatedCompliantRow(i) ==
    /\ df.rows[i]["coliform"] # 0
    /\ df.rows[i]["coliform_status"] = COLI_UNSAFE
    /\ df.rows[i]["ph_status"] = PH_OK
    /\ df.rows[i]["tds_status"] = TDS_OK
    /\ df.rows[i]["ec_status"] = TDS_OK

(* C1: an uploaded batch that holds a sample with nonzero coliform (status *)
(* Unsafe) and compliant pH, TDS and conductivity emits the contamination  *)
(* advisory.                                                               *)
C1_ContaminationAdvisory ==
    (/\ Reported /\ mode = Upload
     /\ {"coliform_status", "ph_status", "tds_status", "ec_status"} \subseteq df.columns
     /\ \E i \in Rows(df) : ContaminatedCompliantRow(i))
    => advisory

-----------------------------------------------------------------------------
UpperBoundOnly == {[src |-> "tds", bound |-> TDS_HIGH], [src |-> "ec_val", bound |-> EC_HIGH]}

UpperBoundRule(x, bound, status) ==
    /\ x = NaN => status \notin {TDS_OK, TDS_HIGH_LABEL}
    /\ (x # NaN /\ x > bound) => status = TDS_HIGH_LABEL
    /\ (x # NaN /\ x <= bound) => status = TDS_OK

(* C2: for TDS and conductivity, in every checked sample, a value above    *)
(* the bound has the above-max status, a value at or below the bound has   *)
(* OK, and a missing value has neither of the two.                         *)
C2_UpperBoundStatuses ==
    Checked =>
        \A p \in UpperBoundOnly : Has(df, p.src) =>
            /\ Has(df, StatusColumn(p.src))
            /\ \A i \in Rows(df) :
                  UpperBoundRule(df.rows[i][p.src], p.bound, df.rows[i][StatusColumn(p.src)])

-----------------------------------------------------------------------------
ComplianceView(f) == [statuses |-> Restrict(f, param_columns), summary |-> TextSummary(f)]

AllUnavailable ==
    /\ Has(df, "interpretation")
    /\ \A i \in Rows(df) : df.rows[i]["interpretation"] = "Unavailable"

(* C3: when the predictor raises, every sample of the batch is classified  *)
(* Unavailable, the request goes on to its report, and the statuses and    *)
(* the summary are those of the same batch with a predictor that returned. *)
C3_PredictorFailureIsolated ==
    /\ [](predictor = "raised" =>
            /\ pc \in {"report", "done"}
            /\ AllUnavailable
            /\ pc = "report" => ENABLED Report
            /\ pc = "done" => summary = ComplianceView(df).summary)
    /\ [][(pc = "predict" /\ predictor' = "raised") =>
            \A labels \in [Rows(df) -> Classes] :
                ComplianceView(df') = ComplianceView(OnPredictorSuccess(df, labels))]_vars

C3_Witness ==
    /\ pc = "done" /\ predictor = "raised"
    /\ Len(df.rows) = 2
    /\ DOMAIN summary = param_columns

-----------------------------------------------------------------------------
\* a field of a row; a field the row does not have is missing
Field(row, c) == IF c \in DOMAIN row THEN row[c] ELSE NaN

ParsedAsClaimed(cell, row) ==
    /\ Malformed(cell) => Field(row, "ec_val") = NaN /\ Field(row, "temp") = NaN
    /\ WellFormed(cell) =>
          /\ Field(row, "ec_val") = ToFloat(StrSplit(cell, "/")[1])
          /\ Field(row, "temp") = ToFloat(StrSplit(cell, "/")[2])
          /\ "ec_status" \in DOMAIN row

(* C4: with canonical headers and a malformed conductivity cell in the     *)
(* physical file, the warning is shown and every physical record that has  *)
(* a bacterial record is in the merged frame, a malformed one with missing *)
(* conductivity and temperature, a well-formed one with its parsed values  *)
(* and a conductivity status.                                              *)
C4_MalformedCellIsolated ==
    (/\ pc = "done" /\ BothUploaded
     /\ Has(phys_file, "Sample") /\ Has(phys_file, "EC") /\ Has(bact_file, "Sample")
     /\ \E k \in Rows(phys_file) : Malformed(phys_file.rows[k]["EC"]))
    =>
    /\ split_error
    /\ \A k \in Rows(phys_file) :
          phys_file.rows[k]["Sample"] \in Ids(bact_file) =>
              \E j \in Rows(df) :
                  /\ df.rows[j][IdColumn(df)] = phys_file.rows[k]["Sample"]
                  /\ ParsedAsClaimed(phys_file.rows[k]["EC"], df.rows[j])

-----------------------------------------------------------------------------
(* C5: once the script has run on two uploaded files, the identifiers of   *)
(* the merged frame are exactly the identifiers the two files share.       *)
C5_MergedIdsAreCommonIds ==
    (Idle /\ BothUploaded) => Ids(df) = CommonIds

-----------------------------------------------------------------------------
NonMissing(f, col) == {i \in Rows(f) : f.rows[i][SourceOf(col)] # NaN}

AcceptableRows(f, col) == {i \in Rows(f) : Acceptable(f.rows[i][col])}

(* C6: the summary of a parameter is the number of acceptable statuses     *)
(* over the number of samples whose value is not missing, and a parameter  *)
(* whose values are all missing has no percentage.                         *)
C6_AcceptableFraction ==
    Reported =>
        \A col \in param_columns \cap df.columns :
            IF NonMissing(df, col) = {}
            THEN col \notin DOMAIN summary
            ELSE /\ col \in DOMAIN summary
                 /\ summary[col].safe = Cardinality(AcceptableRows(df, col))
                 /\ summary[col].total = Cardinality(NonMissing(df, col))
                 /\ summary[col].percent10 =
                       Percent10(Cardinality(AcceptableRows(df, col)),
                                 Cardinality(NonMissing(df, col)))

-----------------------------------------------------------------------------
(* C7: the checks apply the guidelines the app displays: pH is OK exactly  *)
(* from 6.5 to 8.5, TDS exactly up to 1000, conductivity exactly up to     *)
(* 1400.                                                                   *)
C7_DisplayedGuidelinesApplied ==
    Checked =>
        \A i \in Rows(df) :
            /\ (Has(df, "ph") /\ df.rows[i]["ph"] # NaN) =>
                  (df.rows[i]["ph_status"] = PH_OK
                      <=> (WHO_PH_MIN <= df.rows[i]["ph"] /\ df.rows[i]["ph"] <= WHO_PH_MAX))
            /\ (Has(df, "tds") /\ df.rows[i]["tds"] # NaN) =>
                  (df.rows[i]["tds_status"] = TDS_OK <=> df.rows[i]["tds"] <= WHO_TDS_MAX)
            /\ (Has(df, "ec_val") /\ df.rows[i]["ec_val"] # NaN) =>
                  (df.rows[i]["ec_status"] = TDS_OK <=> df.rows[i]["ec_val"] <= WHO_EC_MAX)

-----------------------------------------------------------------------------
(* C8: the model and the scaler are each constructed at most once; a       *)
(* handle is there exactly when its one construction happened, and once    *)
(* it is there no step constructs or replaces it.                          *)
C8_LoadedAtMostOnce ==
    /\ [](/\ model_loads <= 1 /\ scaler_loads <= 1
          /\ model_cache # NotLoaded <=> model_loads = 1
          /\ scaler_cache # NotLoaded <=> scaler_loads = 1)
    /\ [][/\ model_cache # NotLoaded =>
                (model_cache' = model_cache /\ model_loads' = model_loads)
          /\ scaler_cache # NotLoaded =>
                (scaler_cache' = scaler_cache /\ scaler_loads' = scaler_loads)]_vars

\* a request is about to predict with handles an earlier request memoized
C8_Witness ==
    /\ pc = "predict"
    /\ model_cache = ModelHandle /\ scaler_cache = ScalerHandle
    /\ model_loads = 1 /\ scaler_loads = 1

-----------------------------------------------------------------------------
HardnessTiers ==
    <<[bound |-> 60, label |-> SOFT], [bound |-> 120, label |-> MODERATE],
      [bound |-> 180, label |-> HARD]>>

FirstTier(x) ==
    LET fits == {t \in 1..Len(HardnessTiers) : x <= HardnessTiers[t].bound}
    IN  IF fits = {} THEN VERY_HARD ELSE HardnessTiers[Min(fits)].label

(* C9: the hardness category of a sample with a hardness value is the      *)
(* label of the first tier, in ascending order of bound, whose bound is at *)
(* least the value, and Very Hard when the value is above every bound.     *)
C9_HardnessFirstTier ==
    (Checked /\ Has(df, "hardness")) =>
        /\ Has(df, "hardness_status")
        /\ \A i \in Rows(df) :
              df.rows[i]["hardness"] # NaN =>
                  df.rows[i]["hardness_status"] = FirstTier(df.rows[i]["hardness"])

C9_Witness ==
    /\ Reported /\ Has(df, "hardness_status")
    /\ \E i \in Rows(df) :
          df.rows[i]["hardness"] = 120 /\ df.rows[i]["hardness_status"] = MODERATE

-----------------------------------------------------------------------------
(* C10: the column names are normalized before the merge, so the join on   *)
(* the identifier goes through for files whose identifier header differs   *)
(* from "Sample" only in case or surrounding blanks.                       *)
C10_JoinAfterNormalization ==
    (BothUploaded /\ CommonIds # {}) =>
        /\ pc # "crashed"
        /\ pc = "done" => CommonIds \subseteq Ids(df)

====
